---- MODULE Spec2Model ----
(***************************************************************************)
(* Image-to-event extraction pipeline of the science calendar (main.py):   *)
(* the month-column parser, the poster date scanner, the column-separator  *)
(* detection and the upload entry point that chooses between the paths.    *)
(*                                                                         *)
(* Text is a sequence of characters; a character is a one-letter string.   *)
(* The en dash and the em dash are written "ndash" and "mdash".            *)
(***************************************************************************)
EXTENDS Integers, Sequences, FiniteSets, TLC

VARIABLES
  \* _parse_month_text: its arguments, loop position and locals
  mpc, mlines, month_num, myear, mi, current_day, current_desc, mevents,
  \* _extract_events: its lines, loop position, the local match and the result
  ppc, plines, pidx, match, pevents,
  \* one row of _extract_calendar_grid: the width, the mean brightness of
  \* each pixel column of the row band, the separators and the boundaries
  gpc, gW, col_bright, separators, xs,
  \* upload_image: the module flag _NUMPY, the request, the position in the
  \* handler, the locals of the grid path, the last recognition call, the
  \* recognised poster text, the temporary file and the response
  numpy, upc, image, forced_year, uyear, rows, row_xs, row_idx, col_idx,
  all_events, ocr, utext, temp_file, result

pvars == <<ppc, plines, pidx, match, pevents>>
gvars == <<gpc, gW, col_bright, separators, xs>>
uvars == <<numpy, upc, image, forced_year, uyear, rows, row_xs, row_idx, col_idx,
           all_events, ocr, utext, temp_file, result>>
mvars == <<mpc, mlines, month_num, myear, mi, current_day, current_desc, mevents>>

\* Optional[int]: None is the empty sequence, a day d is <<d>>
None == << >>
Some(d) == <<d>>

(***************************************************************************)
(* Characters and strings                                                  *)
(***************************************************************************)
Digits == {"0", "1", "2", "3", "4", "5", "6", "7", "8", "9"}

DigitVal(c) ==
  CASE c = "0" -> 0 [] c = "1" -> 1 [] c = "2" -> 2 [] c = "3" -> 3
    [] c = "4" -> 4 [] c = "5" -> 5 [] c = "6" -> 6 [] c = "7" -> 7
    [] c = "8" -> 8 [] c = "9" -> 9

DigitChar(n) ==
  CASE n = 0 -> "0" [] n = 1 -> "1" [] n = 2 -> "2" [] n = 3 -> "3"
    [] n = 4 -> "4" [] n = 5 -> "5" [] n = 6 -> "6" [] n = 7 -> "7"
    [] n = 8 -> "8" [] n = 9 -> "9"

\* \s of the regular expressions and the characters str.strip() removes
Whitespace == {" ", "\t"}

NewLine == "\n"

Min(S) == CHOOSE x \in S : \A y \in S : x <= y
Max(S) == CHOOSE x \in S : \A y \in S : x >= y

\* n copies of character c
Rep(c, n) == [i \in 1..n |-> c]

\* s.strip(chars)
StripChars(s, chars) ==
  LET keep == {i \in 1..Len(s) : s[i] \notin chars}
  IN  IF keep = {} THEN << >> ELSE SubSeq(s, Min(keep), Max(keep))

\* s[:n]
Truncate(s, n) == IF Len(s) <= n THEN s ELSE SubSeq(s, 1, n)

\* sep.join(parts)
RECURSIVE JoinWith(_, _)
JoinWith(parts, sep) ==
  IF Len(parts) = 0 THEN << >>
  ELSE IF Len(parts) = 1 THEN parts[1]
  ELSE parts[1] \o sep \o JoinWith(Tail(parts), sep)

\* text.splitlines(): a final line break opens no further line
SplitLines(text) ==
  LET brk == {i \in 1..Len(text) : text[i] = NewLine}
      starts == {1} \cup {i + 1 : i \in brk}
      lineAt(b) == SubSeq(text, b, Min({i \in brk : i >= b} \cup {Len(text) + 1}) - 1)
      order == {b \in starts : b <= Len(text)}
      F[k \in 0..Cardinality(order)] ==
        IF k = 0 THEN << >>
        ELSE LET b == CHOOSE x \in order : Cardinality({y \in order : y < x}) = k - 1
             IN  Append(F[k - 1], lineAt(b))
  IN  F[Cardinality(order)]

\* re.sub(r"\s+", " ", s)
CollapseSpaces(s) ==
  LET marked == [i \in 1..Len(s) |->
                   IF s[i] \notin Whitespace THEN <<s[i], TRUE>>
                   ELSE <<" ", i = 1 \/ s[i - 1] \notin Whitespace>>]
      Kept(m) == m[2]
      kept == SelectSeq(marked, Kept)
  IN  [i \in 1..Len(kept) |-> kept[i][1]]

\* str(n) of an integer
RECURSIVE NatToStr(_)
NatToStr(n) ==
  IF n < 10 THEN <<DigitChar(n)>> ELSE Append(NatToStr(n \div 10), DigitChar(n % 10))

IntToStr(n) == IF n < 0 THEN <<"-">> \o NatToStr(0 - n) ELSE NatToStr(n)

\* int(s) of a string of digits
RECURSIVE StrToNat(_)
StrToNat(s) ==
  IF Len(s) = 0 THEN 0
  ELSE 10 * StrToNat(SubSeq(s, 1, Len(s) - 1)) + DigitVal(s[Len(s)])

\* f"{n:02d}"
PadTwo(n) == IF 0 <= n /\ n < 10 THEN <<"0">> \o IntToStr(n) ELSE IntToStr(n)

UpperLetters ==
  <<"A","B","C","D","E","F","G","H","I","J","K","L","M","N","O","P","Q","R","S","T","U","V","W","X","Y","Z">>
LowerLetters ==
  <<"a","b","c","d","e","f","g","h","i","j","k","l","m","n","o","p","q","r","s","t","u","v","w","x","y","z">>

Letters == {UpperLetters[i] : i \in 1..26} \cup {LowerLetters[i] : i \in 1..26}

\* c.lower()
ToLower(c) ==
  IF \E i \in 1..26 : UpperLetters[i] = c
  THEN LowerLetters[CHOOSE i \in 1..26 : UpperLetters[i] = c]
  ELSE c

LowerStr(s) == [i \in 1..Len(s) |-> ToLower(s[i])]

\* \w of the regular expressions
WordChars == Letters \cup Digits \cup {"_"}

\* the character at position i, "" outside the string
At(s, i) == IF i \in 1..Len(s) THEN s[i] ELSE ""

\* the run of characters of class cls in s from position p on: its length
RunLen(s, p, cls) ==
  IF At(s, p) \notin cls THEN 0
  ELSE LET stop == {i \in p..Len(s) : s[i] \notin cls}
       IN  IF stop = {} THEN Len(s) - p + 1 ELSE Min(stop) - p

\* Matching from the left: a position is the index of the next character to
\* read, 0 once the match has failed.
\* cls{lo,hi}, the whole run taken
Run(s, q, cls, lo, hi) ==
  IF q # 0 /\ RunLen(s, q, cls) >= lo /\ RunLen(s, q, cls) <= hi
  THEN q + RunLen(s, q, cls) ELSE 0

\* cls+, the whole run taken
Run1(s, q, cls) == IF q # 0 /\ RunLen(s, q, cls) >= 1 THEN q + RunLen(s, q, cls) ELSE 0

\* one character of cls
One(s, q, cls) == IF q # 0 /\ At(s, q) \in cls THEN q + 1 ELSE 0

\* c?
Opt(s, q, c) == IF q # 0 /\ At(s, q) = c THEN q + 1 ELSE q

\* \b
WordBoundary(s, q) ==
  IF q # 0 /\ (At(s, q - 1) \in WordChars) # (At(s, q) \in WordChars) THEN q ELSE 0

\* whether sub occurs in s
Contains(s, sub) ==
  \E i \in 1..(Len(s) - Len(sub) + 1) : SubSeq(s, i, i + Len(sub) - 1) = sub

(***************************************************************************)
(* Annual calendar grid: one month column                                  *)
(***************************************************************************)
TITLE_MAX == 140
TITLE_MIN == 6

DayLetters == {"L", "M", "J", "V", "S", "D", "l", "j", "i"}

\* the characters title.strip(" ()--") removes
TitleStrip == {" ", "(", ")", "ndash", "mdash"}

days_in_month(month, year) ==
  IF month = 2
  THEN IF year % 4 = 0 /\ (year % 100 # 0 \/ year % 400 = 0) THEN 29 ELSE 28
  ELSE <<31, 28, 31, 30, 31, 30, 31, 31, 30, 31, 30, 31>>[month]

\* _DAY_LINE.match(line): the position after group 1, 0 when no match
DayLineDayEnd(line) == Run(line, 1, Digits, 1, 2)

\* _DAY_LINE.match(line): the position group 2 starts at, 0 when no match
DayLineDescStart(line) ==
  Run1(line, Run(line, Run1(line, DayLineDayEnd(line), Whitespace), DayLetters, 1, 2),
       Whitespace \cup {"."})

\* _DAY_LINE.match(line): [ok, day (group 1), desc (group 2)]
DayLineMatch(line) ==
  IF DayLineDescStart(line) # 0
  THEN [ok |-> TRUE, day |-> SubSeq(line, 1, DayLineDayEnd(line) - 1),
        desc |-> SubSeq(line, DayLineDescStart(line), Len(line))]
  ELSE [ok |-> FALSE, day |-> << >>, desc |-> << >>]

\* a search for "(dddd)" that does not anchor at the end of desc
HistYearStartAnywhere(desc) ==
  LET hits == {p \in 1..(Len(desc) - 5) :
                 /\ desc[p] = "("
                 /\ \A k \in 1..4 : desc[p + k] \in Digits
                 /\ desc[p + 5] = ")"}
  IN  IF hits = {} THEN 0 ELSE Min(hits)

\* _HIST_YEAR.search(desc): the start of "(dddd)" closing desc, 0 when none
HistYearStart(desc) ==
  LET hits == {p \in 1..(Len(desc) - 5) :
                 /\ desc[p] = "("
                 /\ \A k \in 1..4 : desc[p + k] \in Digits
                 /\ desc[p + 5] = ")"
                 /\ \A k \in (p + 6)..Len(desc) : desc[k] \in Whitespace}
  IN  IF hits = {} THEN 0 ELSE Min(hits)

FormatDateUnpadded(year, month, day) ==
  IntToStr(year) \o <<"-">> \o IntToStr(month) \o <<"-">> \o IntToStr(day)

\* f"{year}-{month_num:02d}-{current_day:02d}"
FormatDate(year, month, day) ==
  IntToStr(year) \o <<"-">> \o PadTwo(month) \o <<"-">> \o PadTwo(day)

NewEvent(title, date, description) ==
  [title |-> title, date |-> date, end_date |-> << >>,
   description |-> description, location |-> << >>]

\* the title flush() derives from the pending description lines
FlushTitle(desc_lines) ==
  LET desc == JoinWith(desc_lines, <<" ">>)
      p    == HistYearStart(desc)
      cut  == IF p = 0 THEN desc ELSE SubSeq(desc, 1, p - 1)
  IN  Truncate(CollapseSpaces(StripChars(cut, TitleStrip)), TITLE_MAX)

\* the description field flush() derives from the pending description lines
FlushDescription(desc_lines) ==
  LET desc == JoinWith(desc_lines, <<" ">>)
      p    == HistYearStart(desc)
  IN  IF p = 0 THEN << >>
      ELSE <<"A", "n", ":", " ">> \o SubSeq(desc, p + 1, p + 4)

\* flush(): the events after flushing the pending record (day, desc_lines)
flush(events, day, desc_lines, month, year) ==
  IF day = None THEN events
  ELSE IF Len(FlushTitle(desc_lines)) >= TITLE_MIN
  THEN Append(events, NewEvent(FlushTitle(desc_lines),
                               FormatDate(year, month, day[1]),
                               FlushDescription(desc_lines)))
  ELSE events

\* a branch condition without the upper end of the range check
StartsDayNoUpper(line, month, year) ==
  /\ DayLineMatch(line).ok
  /\ 1 <= StrToNat(DayLineMatch(line).day)

\* whether the loop body takes the branch that starts a new pending record
StartsDay(line, month, year) ==
  /\ DayLineMatch(line).ok
  /\ 1 <= StrToNat(DayLineMatch(line).day)
  /\ StrToNat(DayLineMatch(line).day) <= days_in_month(month, year)

\* the loop body on a stripped line: the events, the pending day and the
\* pending description after it
StepEvents(events, day, desc, line, month, year) ==
  IF StartsDay(line, month, year) THEN flush(events, day, desc, month, year) ELSE events

StepDay(day, line, month, year) ==
  IF StartsDay(line, month, year) THEN Some(StrToNat(DayLineMatch(line).day)) ELSE day

StepDesc(day, desc, line, month, year) ==
  IF StartsDay(line, month, year) THEN <<StripChars(DayLineMatch(line).desc, Whitespace)>>
  ELSE IF day # None /\ Len(line) > 0 THEN Append(desc, line)
  ELSE desc

\* the loop of _parse_month_text from line i on, and the final flush()
RECURSIVE ParseLines(_, _, _, _, _, _, _)
ParseLines(lines, i, day, desc, events, month, year) ==
  IF i > Len(lines) THEN flush(events, day, desc, month, year)
  ELSE ParseLines(lines, i + 1,
                  StepDay(day, StripChars(lines[i], Whitespace), month, year),
                  StepDesc(day, desc, StripChars(lines[i], Whitespace), month, year),
                  StepEvents(events, day, desc, StripChars(lines[i], Whitespace), month, year),
                  month, year)

\* _parse_month_text(text, month_num, year)
parse_month_text(text, month, year) ==
  ParseLines(SplitLines(text), 1, None, << >>, << >>, month, year)

(***************************************************************************)
(* Inputs of the month parser                                              *)
(***************************************************************************)
MaxMonthLines == 2

MonthLinePool ==
  <<
    \* "5 L Unirea (1859)": day-line with a trailing historical year
    <<"5"," ","L"," ","U","n","i","r","e","a"," ","(","1","8","5","9",")">>,
    \* "31 M. abcdefg": day 31, in range only for 31-day months
    <<"3","1"," ","M","."," ","a","b","c","d","e","f","g">>,
    \* "29 D. bisect": day 29, in range in February only in leap years
    <<"2","9"," ","D","."," ","b","i","s","e","c","t">>,
    \* "si altele": continuation line
    <<"s","i"," ","a","l","t","e","l","e">>,
    \* "7 J ab": day-line whose title is shorter than 6
    <<"7"," ","J"," ","a","b">>,
    \* "3 L (Opera) mare (1877) (1900)": leading parenthesis and two year tokens
    <<"3"," ","L"," ","(","O","p","e","r","a",")"," ","m","a","r","e"," ",
      "(","1","8","7","7",")"," ","(","1","9","0","0",")">>,
    \* "9 V a...a" (150 times a): day-line with a description longer than 140
    <<"9"," ","V"," ">> \o Rep("a", TITLE_MAX + 10),
    \* "": empty line
    << >>,
    \* "  12 S  a \t b - c  ": whitespace runs and an en dash
    <<" "," ","1","2"," ","S"," "," ","a"," ","\t"," ","b"," ","ndash"," ","c"," "," ">>,
    \* "0 D zero zero": day 0
    <<"0"," ","D"," ","z","e","r","o"," ","z","e","r","o">>,
    \* "123 L trei cifre": three digits, no day-line
    <<"1","2","3"," ","L"," ","t","r","e","i"," ","c","i","f","r","e">>,
    \* "(1900)": continuation line holding only a year token
    <<"(","1","9","0","0",")">>
  >>

\* the texts of at most MaxMonthLines pool lines
MonthTexts ==
  UNION {{JoinWith([k \in 1..n |-> MonthLinePool[f[k]]], <<NewLine>>) :
            f \in [1..n -> 1..Len(MonthLinePool)]} : n \in 0..MaxMonthLines}

MonthNums == {1, 2, 4}
MonthYears == {2024, 2100}

(***************************************************************************)
(* _parse_month_text, one loop iteration per step                          *)
(***************************************************************************)
\* the call: arguments bound, locals initialised
ParseBegin ==
  /\ mpc = "idle"
  /\ \E text \in MonthTexts, m \in MonthNums, y \in MonthYears :
       /\ mlines' = SplitLines(text)
       /\ month_num' = m
       /\ myear' = y
  /\ mi' = 1
  /\ current_day' = None
  /\ current_desc' = << >>
  /\ mevents' = << >>
  /\ mpc' = "loop"

\* one iteration of "for line in text.splitlines()"
ParseLine ==
  /\ mpc = "loop"
  /\ mi <= Len(mlines)
  /\ mevents' = StepEvents(mevents, current_day, current_desc,
                           StripChars(mlines[mi], Whitespace), month_num, myear)
  /\ current_day' = StepDay(current_day, StripChars(mlines[mi], Whitespace), month_num, myear)
  /\ current_desc' = StepDesc(current_day, current_desc,
                              StripChars(mlines[mi], Whitespace), month_num, myear)
  /\ mi' = mi + 1
  /\ UNCHANGED <<mpc, mlines, month_num, myear>>

\* the loop is over: the final flush() and the return
ParseEnd ==
  /\ mpc = "loop"
  /\ mi > Len(mlines)
  /\ mevents' = flush(mevents, current_day, current_desc, month_num, myear)
  /\ mpc' = "done"
  /\ UNCHANGED <<mlines, month_num, myear, mi, current_day, current_desc>>


(***************************************************************************)
(* Simple poster: date patterns in free text                               *)
(***************************************************************************)
MonthsRo ==
  <<<<"i","a","n","u","a","r","i","e">>,
    <<"f","e","b","r","u","a","r","i","e">>,
    <<"m","a","r","t","i","e">>,
    <<"a","p","r","i","l","i","e">>,
    <<"m","a","i">>,
    <<"i","u","n","i","e">>,
    <<"i","u","l","i","e">>,
    <<"a","u","g","u","s","t">>,
    <<"s","e","p","t","e","m","b","r","i","e">>,
    <<"o","c","t","o","m","b","r","i","e">>,
    <<"n","o","i","e","m","b","r","i","e">>,
    <<"d","e","c","e","m","b","r","i","e">>>>

MonthsEn ==
  <<<<"j","a","n","u","a","r","y">>,
    <<"f","e","b","r","u","a","r","y">>,
    <<"m","a","r","c","h">>,
    <<"a","p","r","i","l">>,
    <<"m","a","y">>,
    <<"j","u","n","e">>,
    <<"j","u","l","y">>,
    <<"a","u","g","u","s","t">>,
    <<"s","e","p","t","e","m","b","e","r">>,
    <<"o","c","t","o","b","e","r">>,
    <<"n","o","v","e","m","b","e","r">>,
    <<"d","e","c","e","m","b","e","r">>>>


DateSeps == {".", "-", "/"}

\* the characters remainder.strip(" --:-|") removes
RemainderStrip == {" ", "ndash", "mdash", ":", "-", "|"}

\* the index in names of the word of letters at q, compared without case;
\* 0 when it is none of them
MonthIndex(s, q, names) ==
  IF \E k \in 1..Len(names) : names[k] = LowerStr(SubSeq(s, q, q + RunLen(s, q, Letters) - 1))
  THEN CHOOSE k \in 1..Len(names) :
         names[k] = LowerStr(SubSeq(s, q, q + RunLen(s, q, Letters) - 1))
  ELSE 0

\* (?:name|name|...) followed by whitespace
MonthName(s, q, names) ==
  IF q # 0 /\ MonthIndex(s, q, names) # 0 THEN q + RunLen(s, q, Letters) ELSE 0

\* _DATE_PATTERNS[0] tried at position p: the position after the match, else 0
NumericEnd(s, p) ==
  WordBoundary(s,
    Run(s, One(s, Run(s, One(s, Run(s, WordBoundary(s, p), Digits, 1, 2),
                             DateSeps), Digits, 1, 2), DateSeps), Digits, 2, 4))

\* _DATE_PATTERNS[1] tried at position p
RomanianEnd(s, p) ==
  WordBoundary(s,
    Run(s, Run1(s, MonthName(s, Run1(s, Run(s, WordBoundary(s, p), Digits, 1, 2),
                                     Whitespace), MonthsRo), Whitespace), Digits, 4, 4))

\* _DATE_PATTERNS[2] tried at position p
EnglishEnd(s, p) ==
  WordBoundary(s,
    Run(s, Run1(s, Opt(s, Run(s, Run1(s, MonthName(s, WordBoundary(s, p), MonthsEn),
                                      Whitespace), Digits, 1, 2), ","),
                Whitespace), Digits, 4, 4))

\* _DATE_PATTERNS[3] tried at position p
IsoEnd(s, p) ==
  WordBoundary(s,
    Run(s, One(s, Run(s, One(s, Run(s, WordBoundary(s, p), Digits, 4, 4),
                             DateSeps), Digits, 1, 2), DateSeps), Digits, 1, 2))

Families == 1..4

\* pattern f tried at position p: the position after the match, else 0
FamilyEnd(f, s, p) ==
  CASE f = 1 -> NumericEnd(s, p)
    [] f = 2 -> RomanianEnd(s, p)
    [] f = 3 -> EnglishEnd(s, p)
    [] f = 4 -> IsoEnd(s, p)

\* the first pattern of _DATE_PATTERNS that matches at p, 0 when none does
FamilyAt(s, p) ==
  IF \E f \in Families : FamilyEnd(f, s, p) # 0
  THEN Min({f \in Families : FamilyEnd(f, s, p) # 0})
  ELSE 0

NoMatch == [start |-> 0, end |-> 0, family |-> 0]

\* the match of pattern f at p: match.start(), match.end() - 1 and the pattern
MatchOf(s, p, f) == [start |-> p, end |-> FamilyEnd(f, s, p) - 1, family |-> f]

\* the first position of s-positions where pattern f matches
FirstStart(s, f) == Min({q \in 1..Len(s) : FamilyEnd(f, s, q) # 0})

\* a search that prefers the pattern over the position
DateSearchByFamily(s) ==
  IF \A p \in 1..Len(s) : FamilyAt(s, p) = 0 THEN NoMatch
  ELSE MatchOf(s, FirstStart(s, Min({f \in Families : \E p \in 1..Len(s) : FamilyEnd(f, s, p) # 0})),
               Min({f \in Families : \E p \in 1..Len(s) : FamilyEnd(f, s, p) # 0}))

\* the leftmost position of s at which some pattern matches
LeftmostStart(s) == Min({p \in 1..Len(s) : FamilyAt(s, p) # 0})

\* _DATE_RE.search(s): the alternation is tried at each position from the
\* left, and at one position in the order of _DATE_PATTERNS
DateSearch(s) ==
  IF \A p \in 1..Len(s) : FamilyAt(s, p) = 0 THEN NoMatch
  ELSE MatchOf(s, LeftmostStart(s), FamilyAt(s, LeftmostStart(s)))

\* the k-th number written in t
NthNumber(t, k) ==
  LET runs == {i \in 1..Len(t) : t[i] \in Digits /\ At(t, i - 1) \notin Digits}
      b    == CHOOSE i \in runs : Cardinality({j \in runs : j < i}) = k - 1
  IN  SubSeq(t, b, b + RunLen(t, b, Digits) - 1)

\* the month named in t, as a number
NamedMonth(t, names) ==
  MonthIndex(t, Min({i \in 1..Len(t) : t[i] \in Letters}), names)

ValidDate(y, m, d) ==
  /\ y \in 1..9999
  /\ m \in 1..12
  /\ d \in 1..days_in_month(m, y)

\* a year written with four digits, or with two
PivotYear(digits) ==
  IF Len(digits) = 4 THEN StrToNat(digits)
  ELSE IF Len(digits) = 2
  THEN IF StrToNat(digits) < 69 THEN 2000 + StrToNat(digits) ELSE 1900 + StrToNat(digits)
  ELSE 0

MakeDate(y, m, d) == IF ValidDate(y, m, d) THEN Some(<<y, m, d>>) ELSE None

\* dateparser.parse(t, languages=["ro", "en"]) of a match t of pattern f: the
\* date as it is written (day first in the numeric form), None when that is
\* no date of the calendar
ParseMatched(t, f) ==
  CASE f = 1 -> MakeDate(PivotYear(NthNumber(t, 3)), StrToNat(NthNumber(t, 2)),
                         StrToNat(NthNumber(t, 1)))
    [] f = 2 -> MakeDate(StrToNat(NthNumber(t, 2)), NamedMonth(t, MonthsRo),
                         StrToNat(NthNumber(t, 1)))
    [] f = 3 -> MakeDate(StrToNat(NthNumber(t, 2)), NamedMonth(t, MonthsEn),
                         StrToNat(NthNumber(t, 1)))
    [] f = 4 -> MakeDate(StrToNat(NthNumber(t, 1)), StrToNat(NthNumber(t, 2)),
                         StrToNat(NthNumber(t, 3)))

DateParse(s, m) == ParseMatched(SubSeq(s, m.start, m.end), m.family)

\* parsed.strftime("%Y-%m-%d")
StrfTime(ymd) ==
  Rep("0", 4 - Len(IntToStr(ymd[1]))) \o FormatDate(ymd[1], ymd[2], ymd[3])

\* [ln.strip() for ln in text.splitlines() if ln.strip()]
StrippedLines(text) ==
  LET NonEmpty(ln) == Len(ln) > 0
      raw == SplitLines(text)
  IN  SelectSeq([i \in 1..Len(raw) |-> StripChars(raw[i], Whitespace)], NonEmpty)

Eveniment == <<"E", "v", "e", "n", "i", "m", "e", "n", "t">>

\* " -- ".join(p for p in context if p) or "Eveniment"
JoinContext(context) ==
  IF Len(JoinWith(context, <<" ", "mdash", " ">>)) > 0
  THEN JoinWith(context, <<" ", "mdash", " ">>)
  ELSE Eveniment

\* [remainder] if remainder else []
ContextOf(remainder) == IF Len(remainder) > 0 THEN <<remainder>> ELSE << >>

\* the next line, when there is one and it holds no date match
NextLineContext(lines, i) ==
  IF i + 1 <= Len(lines) /\ DateSearch(lines[i + 1]) = NoMatch
  THEN <<lines[i + 1]>> ELSE << >>

\* the title of the event of lines[i], whose date match is m
PosterTitle(lines, i, m) ==
  JoinContext(
    ContextOf(StripChars(SubSeq(lines[i], 1, m.start - 1)
                           \o SubSeq(lines[i], m.end + 1, Len(lines[i])), RemainderStrip))
      \o NextLineContext(lines, i))

\* the loop body of _extract_events on lines[i] once match is m
StepWithMatch(events, lines, i, m) ==
  IF m = NoMatch THEN events
  ELSE IF DateParse(lines[i], m) = None THEN events
  ELSE Append(events, NewEvent(PosterTitle(lines, i, m),
                               StrfTime(DateParse(lines[i], m)[1]), << >>))

\* the loop body of _extract_events on lines[i]: the events after it
ExtractStep(events, lines, i) == StepWithMatch(events, lines, i, DateSearch(lines[i]))

\* _extract_events(text)
RECURSIVE ExtractFrom(_, _, _)
ExtractFrom(events, lines, i) ==
  IF i > Len(lines) THEN events
  ELSE ExtractFrom(ExtractStep(events, lines, i), lines, i + 1)

extract_events(text) == ExtractFrom(<< >>, StrippedLines(text), 1)

(***************************************************************************)
(* Inputs of the poster scanner                                            *)
(***************************************************************************)
MaxPosterLines == 2

PosterLinePool ==
  <<
    \* "15 martie 2025 – Ziua Apei": Romanian month name, then a title
    <<"1","5"," ","m","a","r","t","i","e"," ","2","0","2","5"," ","ndash"," ","Z","i","u","a"," ","A","p","e","i">>,
    \* "2025-03-15 sau 01.02.2024": an ISO-like date left of a numeric D.M.Y date
    <<"2","0","2","5","-","0","3","-","1","5"," ","s","a","u"," ","0","1",".","0","2",".","2","0","2","4">>,
    \* "Sala 3: 01.02.2024": numeric date after a prefix
    <<"S","a","l","a"," ","3",":"," ","0","1",".","0","2",".","2","0","2","4">>,
    \* "March 5, 2025": English month name, nothing else on the line
    <<"M","a","r","c","h"," ","5",","," ","2","0","2","5">>,
    \* "Ziua Apei": no date
    <<"Z","i","u","a"," ","A","p","e","i">>,
    \* "31.02.2024 gresit": a match that is no calendar date
    <<"3","1",".","0","2",".","2","0","2","4"," ","g","r","e","s","i","t">>,
    \* "x01.02.2024": no word boundary before the digits: no match
    <<"x","0","1",".","0","2",".","2","0","2","4">>,
    \* "  1.2.25 | a...a": two-digit year, then a remainder longer than 140
    <<" "," ","1",".","2",".","2","5"," ","|"," ">> \o Rep("a", TITLE_MAX + 10),
    \* "   ": blank line
    <<" "," "," ">>,
    \* "5 MAI 2025 targ": upper-case month name
    <<"5"," ","M","A","I"," ","2","0","2","5"," ","t","a","r","g">>
  >>

PosterTexts ==
  UNION {{JoinWith([k \in 1..n |-> PosterLinePool[f[k]]], <<NewLine>>) :
            f \in [1..n -> 1..Len(PosterLinePool)]} : n \in 0..MaxPosterLines}

(***************************************************************************)
(* _extract_events, one loop iteration per step                            *)
(***************************************************************************)
\* the call: the lines are stripped and the empty ones dropped
ExtractBegin ==
  /\ ppc = "idle"
  /\ \E text \in PosterTexts : plines' = StrippedLines(text)
  /\ pidx' = 1
  /\ match' = NoMatch
  /\ pevents' = << >>
  /\ ppc' = "loop"

\* one iteration of "for i, line in enumerate(lines)"
ExtractLine ==
  /\ ppc = "loop"
  /\ pidx <= Len(plines)
  /\ match' = DateSearch(plines[pidx])
  /\ pevents' = ExtractStep(pevents, plines, pidx)
  /\ pidx' = pidx + 1
  /\ UNCHANGED <<ppc, plines>>

\* the loop is over: return events
ExtractEnd ==
  /\ ppc = "loop"
  /\ pidx > Len(plines)
  /\ ppc' = "done"
  /\ UNCHANGED <<plines, pidx, match, pevents>>


(***************************************************************************)
(* Annual calendar grid: the columns of one row                            *)
(***************************************************************************)
WINDOW == 20
BRIGHT_MIN == 200
MAX_SEPARATORS == 5
GRID_COLUMNS == 6

\* sum of col[a..b], positions counted from 0 as in the array
RECURSIVE SumRange(_, _, _)
SumRange(col, a, b) == IF a > b THEN 0 ELSE col[a + 1] + SumRange(col, a + 1, b)

\* WINDOW * np.convolve(col, np.ones(WINDOW) / WINDOW, mode="same")[x]: the
\* window of x is x - WINDOW/2 .. x + WINDOW/2 - 1, cut at the array's ends
SmoothedSum(col, x) ==
  SumRange(col, Max({0, x - WINDOW \div 2}), Min({Len(col) - 1, x + WINDOW \div 2 - 1}))

Smoothed(col) == [x \in 0..(Len(col) - 1) |-> SmoothedSum(col, x)]

\* smoothed[lo:hi].max()
WindowMax(sm, lo, hi, W) == Max({sm[i] : i \in lo..Min({hi - 1, W - 1})})

\* the x of range(min_dist, W - min_dist) the scan keeps, with a window of
\* half-width dist around x
CandidatesWithin(sm, W, dist) ==
  {x \in (W \div 9)..(W - (W \div 9) - 1) :
     /\ sm[x] = WindowMax(sm, Max({0, x - dist}), x + dist, W)
     /\ sm[x] > BRIGHT_MIN * WINDOW}

Candidates(sm, W) == CandidatesWithin(sm, W, W \div 9)

\* candidates.sort(key=lambda p: -p[1]); candidates[:5]: the sort is stable,
\* so equal values stay in the order of x
Brightest(sm, cands) ==
  {x \in cands :
     Cardinality({c \in cands : sm[c] > sm[x] \/ (sm[c] = sm[x] /\ c < x)}) < MAX_SEPARATORS}

\* sorted(S)
SortedSeq(S) ==
  [k \in 1..Cardinality(S) |-> CHOOSE x \in S : Cardinality({y \in S : y < x}) = k - 1]

\* _detect_col_separators, given the column means of arr[y0:y1, :]
detect_col_separators(col, W) ==
  SortedSeq(Brightest(Smoothed(col), Candidates(Smoothed(col), W)))

\* int(W * 0.025) and int(W * 0.975)
LeftMargin(W) == (W * 25) \div 1000
RightMargin(W) == (W * 975) \div 1000

\* the fallback: equal-width columns
EqualColumnsSix(W) ==
  [i \in 1..GRID_COLUMNS |->
     LeftMargin(W) + (i - 1) * ((RightMargin(W) - LeftMargin(W)) \div GRID_COLUMNS)]

EqualColumns(W) ==
  [i \in 1..(GRID_COLUMNS + 1) |->
     LeftMargin(W) + (i - 1) * ((RightMargin(W) - LeftMargin(W)) \div GRID_COLUMNS)]

\* xs of one row
column_bounds(W, seps) ==
  IF Len(seps) = MAX_SEPARATORS
  THEN <<LeftMargin(W)>> \o seps \o <<RightMargin(W)>>
  ELSE EqualColumns(W)

\* re.findall(r'(?<!\d)(20\d{2})(?!\d)', text): where the tokens start
YearTokenStarts(text) ==
  {p \in 1..(Len(text) - 3) :
     /\ text[p] = "2" /\ text[p + 1] = "0"
     /\ text[p + 2] \in Digits /\ text[p + 3] \in Digits
     /\ At(text, p - 1) \notin Digits
     /\ At(text, p + 4) \notin Digits}

YearAt(text, p) == StrToNat(SubSeq(text, p, p + 3))

YEAR_LO == 2024
YEAR_HI == 2035

\* the starts of the tokens kept as candidates
CandidateStarts(text) ==
  {p \in YearTokenStarts(text) : YEAR_LO <= YearAt(text, p) /\ YearAt(text, p) <= YEAR_HI}

\* how often the candidate at p occurs among the candidates
CountOf(text, p) ==
  Cardinality({q \in CandidateStarts(text) : YearAt(text, q) = YearAt(text, p)})

\* Counter(candidates).most_common(1)[0][0]: the most frequent one, the
\* first seen among equally frequent ones
MostCommonStart(text) ==
  Min({p \in CandidateStarts(text) :
         \A q \in CandidateStarts(text) : CountOf(text, q) <= CountOf(text, p)})

\* datetime.now().year
NowYear == 2026

\* _detect_year, given the text recognised in the title band
detect_year(text) ==
  IF CandidateStarts(text) # {} THEN YearAt(text, MostCommonStart(text))
  ELSE NowYear + 1

\* int(H * n / 1000)
Permille(H, n) == (H * n) \div 1000

\* mid_y, given the offset of the brightest row of the band [40%H, 60%H)
MidY(H, peak) == Permille(H, 400) + peak

\* rows, as (y0, y1) pairs
RowBands(H, mid_y) ==
  << <<Permille(H, 130), Max({Permille(H, 130) + 10, mid_y - Permille(H, 15)})>>,
     <<Min({mid_y + Permille(H, 10), Permille(H, 950)}), Permille(H, 900)>> >>

(***************************************************************************)
(* Inputs of the column detection                                          *)
(***************************************************************************)
GridWidths == {45, 54}
Levels == {0, 210, 255}
StripeWidths == {1, 10, 30}

\* W column means: base everywhere, level on a stripe of the given width
Profile(W, base, level, start, width) ==
  [x \in 1..W |-> IF start <= x - 1 /\ x - 1 < start + width THEN level ELSE base]

(***************************************************************************)
(* One row of the grid                                                     *)
(***************************************************************************)
\* a row band of an image of width W
RowBegin ==
  /\ gpc = "idle"
  /\ \E W \in GridWidths, base \in Levels, level \in Levels,
        width \in StripeWidths :
       \E start \in 0..(W - 1) :
         /\ gW' = W
         /\ col_bright' = Profile(W, base, level, start, width)
  /\ gpc' = "detect"
  /\ UNCHANGED <<separators, xs>>

\* separators = _detect_col_separators(arr, y0, y1, W)
DetectSeparators ==
  /\ gpc = "detect"
  /\ separators' = detect_col_separators(col_bright, gW)
  /\ gpc' = "bounds"
  /\ UNCHANGED <<gW, col_bright, xs>>

\* if len(separators) == 5: ... else: ...
ColumnBounds ==
  /\ gpc = "bounds"
  /\ xs' = column_bounds(gW, separators)
  /\ gpc' = "done"
  /\ UNCHANGED <<gW, col_bright, separators>>


(***************************************************************************)
(* The upload entry point                                                  *)
(***************************************************************************)
GRID_MIN_EVENTS == 10
GRID_ROWS == 2

\* suffix not in {".jpg", ".jpeg", ".png"} is refused
AllowedSuffixes == {".jpg", ".jpeg", ".png"}

\* if _NUMPY and W > H
UsesGrid(np, W, H) == np /\ W > H

GridAcceptedNonEmpty(events) == Len(events) >= 1

\* if len(events) >= 10
GridAccepted(events) == Len(events) >= GRID_MIN_EVENTS

\* forced_year if forced_year else ...: None and 0 are both falsy
Truthy(opt) == opt # None /\ opt[1] # 0

\* len(set(e["date"][:7] for e in events))
MonthsFound(events) ==
  Cardinality({Truncate(events[i].date, 7) : i \in 1..Len(events)})

\* f"Calendar anual detectat ({W}xH px). {len(events)} intrari extrase din
\* {months_found} luni (an: {detected_year})."
Summary(W, H, events) ==
  <<"C","a","l","e","n","d","a","r"," ","a","n","u","a","l"," ","d","e","t","e","c","t","a","t"," ","(">> \o IntToStr(W) \o <<"times">> \o IntToStr(H) \o <<"p","x",")","."," ">>
    \o IntToStr(Len(events)) \o <<" ","i","n","t","r","abreve","r","i"," ","e","x","t","r","a","s","e"," ","d","i","n"," ">>
    \o IntToStr(MonthsFound(events)) \o <<" ","l","u","n","i"," ","(","a","n",":"," ">>
    \o Truncate(events[1].date, 4) \o <<")", ".">>

\* the last recognition call: where, in which language, and whether it
\* returned a text
NoCall == [site |-> <<"none">>, lang |-> "", ok |-> TRUE]

Call(site, lang, ok) == [site |-> site, lang |-> lang, ok |-> ok]

NoResult == [raw_text |-> << >>, events |-> << >>]

Suffixes == {".jpg", ".gif"}

ReadableColumns == {0, 8, 9, 10, 12}

\* an image: its size, the offset of the brightest row of the middle band,
\* the column means of its row bands, and how many month columns (in month
\* order) hold a day entry the recognition can read
ImageShapes ==
  { [W |-> 54, H |-> 40, peak |-> 3, cols |-> Profile(54, 0, 0, 0, 1)],
    [W |-> 45, H |-> 30, peak |-> 0, cols |-> Profile(45, 255, 255, 0, 1)],
    [W |-> 40, H |-> 54, peak |-> 0, cols |-> Profile(40, 0, 0, 0, 1)],
    [W |-> 40, H |-> 40, peak |-> 0, cols |-> Profile(40, 0, 0, 0, 1)] }

Images ==
  { [W |-> sh.W, H |-> sh.H, peak |-> sh.peak, cols |-> sh.cols, readable |-> n] :
      sh \in ImageShapes, n \in ReadableColumns }

ForcedYears == {None, Some(0), Some(987), Some(2026)}

\* what the title band may read
TitleTexts ==
  { \* "Calendar 2025"
    <<"C","a","l","e","n","d","a","r"," ","2","0","2","5">>,
    \* "2031 si 2024, 2031 20255 1999"
    <<"2","0","3","1"," ","s","i"," ","2","0","2","4",","," ","2","0","3","1"," ",
      "2","0","2","5","5"," ","1","9","9","9">>,
    \* "Calendar stiintific"
    <<"C","a","l","e","n","d","a","r"," ","s","t","i","i","n","t","i","f","i","c">> }

\* what the column of a month reads: "5 L Unirea (1859)" and "31 M." in a
\* readable column, nothing in the others
ColumnText(img, month) ==
  IF month <= img.readable
  THEN <<"5"," ","L"," ","U","n","i","r","e","a"," ","(","1","8","5","9",")","\n",
         "3","1"," ","M",".">>
  ELSE << >>

\* what the whole image may read
UploadPosterTexts ==
  {<< >>, PosterLinePool[1], PosterLinePool[5], PosterLinePool[8]}

(***************************************************************************)
(* upload_image, one recognition call per step                             *)
(***************************************************************************)
\* the request arrives: the suffix is checked, the file written and opened,
\* the path chosen
Upload ==
  /\ upc = "idle"
  /\ \E sfx \in Suffixes, img \in Images, fy \in ForcedYears :
       IF sfx \notin AllowedSuffixes
       THEN /\ upc' = "rejected"
            /\ UNCHANGED <<image, forced_year, temp_file>>
       ELSE /\ image' = img
            /\ forced_year' = fy
            /\ temp_file' = TRUE
            /\ upc' = IF UsesGrid(numpy, img.W, img.H) THEN "year" ELSE "poster"
  /\ UNCHANGED <<numpy, uyear, rows, row_xs, row_idx, col_idx, all_events, ocr, utext, result>>

\* year = forced_year
UseForcedYear ==
  /\ upc = "year"
  /\ Truthy(forced_year)
  /\ uyear' = forced_year[1]
  /\ upc' = "rows"
  /\ UNCHANGED <<numpy, image, forced_year, rows, row_xs, row_idx, col_idx,
                 all_events, ocr, utext, temp_file, result>>

\* year = _detect_year(image): the title band is recognised once; a failure
\* leaves the text empty
DetectYear ==
  /\ upc = "year"
  /\ ~Truthy(forced_year)
  /\ \E ok \in BOOLEAN, t \in TitleTexts :
       /\ uyear' = detect_year(IF ok THEN t ELSE << >>)
       /\ ocr' = Call(<<"title">>, "ron+eng", ok)
  /\ upc' = "rows"
  /\ UNCHANGED <<numpy, image, forced_year, rows, row_xs, row_idx, col_idx,
                 all_events, utext, temp_file, result>>

\* mid_y and the two row bands
LocateRows ==
  /\ upc = "rows"
  /\ rows' = RowBands(image.H, MidY(image.H, image.peak))
  /\ row_idx' = 0
  /\ col_idx' = 0
  /\ all_events' = << >>
  /\ upc' = "segment"
  /\ UNCHANGED <<numpy, image, forced_year, uyear, row_xs, ocr, utext, temp_file, result>>

\* the separators and the column boundaries of rows[row_idx]
SegmentRow ==
  /\ upc = "segment"
  /\ row_xs' = column_bounds(image.W, detect_col_separators(image.cols, image.W))
  /\ upc' = "column"
  /\ UNCHANGED <<numpy, image, forced_year, uyear, rows, row_idx, col_idx,
                 all_events, ocr, utext, temp_file, result>>

\* the text of a column is parsed and the loops advance
ColumnRead(t) ==
  /\ all_events' = all_events
                     \o parse_month_text(t, row_idx * GRID_COLUMNS + col_idx + 1, uyear)
  /\ IF col_idx + 1 < GRID_COLUMNS
     THEN /\ col_idx' = col_idx + 1
          /\ row_idx' = row_idx
          /\ upc' = "column"
     ELSE IF row_idx + 1 < GRID_ROWS
     THEN /\ col_idx' = 0
          /\ row_idx' = row_idx + 1
          /\ upc' = "segment"
     ELSE /\ UNCHANGED <<col_idx, row_idx>>
          /\ upc' = "gate"

\* pytesseract.image_to_string(crop, lang="ron+eng")
RecognizeColumn ==
  /\ upc = "column"
  /\ \E ok \in BOOLEAN :
       /\ ocr' = Call(<<"column", row_idx * GRID_COLUMNS + col_idx + 1>>, "ron+eng", ok)
       /\ IF ok THEN ColumnRead(ColumnText(image, row_idx * GRID_COLUMNS + col_idx + 1))
          ELSE /\ upc' = "column_retry"
               /\ UNCHANGED <<all_events, col_idx, row_idx>>
  /\ UNCHANGED <<numpy, image, forced_year, uyear, rows, row_xs, utext, temp_file, result>>

\* except pytesseract.TesseractError: image_to_string(crop, lang="eng"); a
\* second failure leaves the handler through finally
RetryColumn ==
  /\ upc = "column_retry"
  /\ \E ok \in BOOLEAN :
       /\ ocr' = Call(<<"column", row_idx * GRID_COLUMNS + col_idx + 1>>, "eng", ok)
       /\ IF ok
          THEN /\ ColumnRead(ColumnText(image, row_idx * GRID_COLUMNS + col_idx + 1))
               /\ UNCHANGED temp_file
          ELSE /\ upc' = "error"
               /\ temp_file' = FALSE
               /\ UNCHANGED <<all_events, col_idx, row_idx>>
  /\ UNCHANGED <<numpy, image, forced_year, uyear, rows, row_xs, utext, result>>

\* if len(events) >= 10: return the summary and the grid events
GridGate ==
  /\ upc = "gate"
  /\ IF GridAccepted(all_events)
     THEN /\ result' = [raw_text |-> Summary(image.W, image.H, all_events),
                        events |-> all_events]
          /\ temp_file' = FALSE
          /\ upc' = "done"
     ELSE /\ upc' = "poster"
          /\ UNCHANGED <<result, temp_file>>
  /\ UNCHANGED <<numpy, image, forced_year, uyear, rows, row_xs, row_idx, col_idx,
                 all_events, ocr, utext>>

\* events = _extract_events(text); return
PosterRead(t) ==
  /\ utext' = t
  /\ result' = [raw_text |-> t, events |-> extract_events(t)]
  /\ upc' = "done"

\* pytesseract.image_to_string(image, lang="ron+eng")
RecognizePoster ==
  /\ upc = "poster"
  /\ \E ok \in BOOLEAN, t \in UploadPosterTexts :
       /\ ocr' = Call(<<"poster">>, "ron+eng", ok)
       /\ IF ok THEN PosterRead(t) /\ temp_file' = FALSE
          ELSE /\ upc' = "poster_retry"
               /\ UNCHANGED <<utext, result, temp_file>>
  /\ UNCHANGED <<numpy, image, forced_year, uyear, rows, row_xs, row_idx, col_idx,
                 all_events>>

\* except pytesseract.TesseractError: image_to_string(image, lang="eng")
RetryPoster ==
  /\ upc = "poster_retry"
  /\ \E ok \in BOOLEAN, t \in UploadPosterTexts :
       /\ ocr' = Call(<<"poster">>, "eng", ok)
       /\ IF ok THEN PosterRead(t)
          ELSE /\ upc' = "error"
               /\ UNCHANGED <<utext, result>>
  /\ temp_file' = FALSE
  /\ UNCHANGED <<numpy, image, forced_year, uyear, rows, row_xs, row_idx, col_idx,
                 all_events>>

(***************************************************************************)
(* Specifications                                                          *)
(***************************************************************************)
vars == <<mvars, pvars, gvars, uvars>>

\* no call is in progress
Init ==
  /\ mpc = "idle"
  /\ mlines = << >>
  /\ month_num = 1
  /\ myear = 2024
  /\ mi = 1
  /\ current_day = None
  /\ current_desc = << >>
  /\ mevents = << >>
  /\ ppc = "idle"
  /\ plines = << >>
  /\ pidx = 1
  /\ match = NoMatch
  /\ pevents = << >>
  /\ gpc = "idle"
  /\ gW = 0
  /\ col_bright = << >>
  /\ separators = << >>
  /\ xs = << >>
  /\ numpy \in BOOLEAN
  /\ upc = "idle"
  /\ image = [W |-> 0, H |-> 0, peak |-> 0, cols |-> << >>, readable |-> 0]
  /\ forced_year = None
  /\ uyear = 0
  /\ rows = << >>
  /\ row_xs = << >>
  /\ row_idx = 0
  /\ col_idx = 0
  /\ all_events = << >>
  /\ ocr = NoCall
  /\ utext = << >>
  /\ temp_file = FALSE
  /\ result = NoResult

MonthNext ==
  \/ ParseBegin /\ UNCHANGED <<pvars, gvars, uvars>>
  \/ ParseLine /\ UNCHANGED <<pvars, gvars, uvars>>
  \/ ParseEnd /\ UNCHANGED <<pvars, gvars, uvars>>

SpecMonth == Init /\ [][MonthNext]_vars

PosterNext ==
  \/ ExtractBegin /\ UNCHANGED <<mvars, gvars, uvars>>
  \/ ExtractLine /\ UNCHANGED <<mvars, gvars, uvars>>
  \/ ExtractEnd /\ UNCHANGED <<mvars, gvars, uvars>>

SpecPoster == Init /\ [][PosterNext]_vars

GridNext ==
  \/ RowBegin /\ UNCHANGED <<mvars, pvars, uvars>>
  \/ DetectSeparators /\ UNCHANGED <<mvars, pvars, uvars>>
  \/ ColumnBounds /\ UNCHANGED <<mvars, pvars, uvars>>

SpecGrid == Init /\ [][GridNext]_vars

Next ==
  \/ Upload /\ UNCHANGED <<mvars, pvars, gvars>>
  \/ UseForcedYear /\ UNCHANGED <<mvars, pvars, gvars>>
  \/ DetectYear /\ UNCHANGED <<mvars, pvars, gvars>>
  \/ LocateRows /\ UNCHANGED <<mvars, pvars, gvars>>
  \/ SegmentRow /\ UNCHANGED <<mvars, pvars, gvars>>
  \/ RecognizeColumn /\ UNCHANGED <<mvars, pvars, gvars>>
  \/ RetryColumn /\ UNCHANGED <<mvars, pvars, gvars>>
  \/ GridGate /\ UNCHANGED <<mvars, pvars, gvars>>
  \/ RecognizePoster /\ UNCHANGED <<mvars, pvars, gvars>>
  \/ RetryPoster /\ UNCHANGED <<mvars, pvars, gvars>>

Spec == Init /\ [][Next]_vars

(***************************************************************************)
(* Properties of the month parser                                          *)
(***************************************************************************)
\* the line the loop body is about to read, stripped
CurLine == StripChars(mlines[mi], Whitespace)

\* this step flushes a pending record: a new in-range day-line, or the end
FlushesPending ==
  /\ mpc = "loop"
  /\ current_day # None
  /\ \/ mi > Len(mlines)
     \/ mi <= Len(mlines) /\ StartsDay(CurLine, month_num, myear)

LastOf(s) == s[Len(s)]

\* s ends in "(dddd)"
EndsInYearToken(s) ==
  /\ Len(s) >= 6
  /\ s[Len(s) - 5] = "("
  /\ \A k \in 1..4 : s[Len(s) - 5 + k] \in Digits
  /\ s[Len(s)] = ")"

\* the description of a pending record without its closing "(dddd)"
WithoutYearToken(desc_lines) ==
  LET desc == JoinWith(desc_lines, <<" ">>)
  IN  IF EndsInYearToken(desc) THEN SubSeq(desc, 1, Len(desc) - 6) ELSE desc

\* year-month-day with month and day as two digits
DateText(year, month, day) ==
  IntToStr(year) \o <<"-", DigitChar(month \div 10), DigitChar(month % 10),
                      "-", DigitChar(day \div 10), DigitChar(day % 10)>>

\* a description the title keeps verbatim
PlainDesc(desc) ==
  /\ Len(desc) <= TITLE_MAX
  /\ ~EndsInYearToken(desc)
  /\ Len(desc) > 0 => desc[1] \notin TitleStrip /\ desc[Len(desc)] \notin TitleStrip
  /\ CollapseSpaces(desc) = desc

C5_TitleIsDescWithoutYear ==
  [][(FlushesPending /\ Len(mevents') = Len(mevents) + 1) =>
       LET desc == JoinWith(current_desc, <<" ">>)
           e    == LastOf(mevents')
       IN  IF EndsInYearToken(desc)
           THEN /\ e.description = <<"A", "n", ":", " ">> \o SubSeq(desc, Len(desc) - 4, Len(desc) - 1)
                /\ e.title = Truncate(CollapseSpaces(
                               StripChars(WithoutYearToken(current_desc), Whitespace)), TITLE_MAX)
           ELSE e.description = << >>]_vars

\* C5 amended: as stated, except that the title is also stripped of leading
\* and trailing parentheses and en/em dashes (with the spaces) before the
\* whitespace is collapsed, and the event is emitted only when that title has
\* at least 6 characters.
C5_Amended ==
  [][FlushesPending =>
       LET desc == JoinWith(current_desc, <<" ">>)
           t    == Truncate(CollapseSpaces(
                     StripChars(WithoutYearToken(current_desc), TitleStrip)), TITLE_MAX)
       IN  IF Len(t) < TITLE_MIN THEN mevents' = mevents
           ELSE /\ Len(mevents') = Len(mevents) + 1
                /\ LastOf(mevents').title = t
                /\ LastOf(mevents').description =
                     IF EndsInYearToken(desc)
                     THEN <<"A", "n", ":", " ">> \o SubSeq(desc, Len(desc) - 4, Len(desc) - 1)
                     ELSE << >>]_vars

\* an event annotated with a historical year and one without were emitted
C5_Witness ==
  /\ mpc = "done"
  /\ \E i, j \in 1..Len(mevents) :
       /\ mevents[i].description = <<"A", "n", ":", " ", "1", "8", "5", "9">>
       /\ mevents[i].title = <<"U", "n", "i", "r", "e", "a">>
       /\ mevents[j].description = << >>

\* the in-range day-lines among the first n lines
InRangeDayLines(n) ==
  {k \in 1..n : StartsDay(StripChars(mlines[k], Whitespace), month_num, myear)}

\* the day an event's date ends in
DayOfDate(date) == StrToNat(SubSeq(date, Len(date) - 1, Len(date)))

\* C8: a line of day-line shape whose day is outside
\* [1, days_in_month(month, year)] flushes nothing and starts no record; with
\* a day pending the whole line is appended to the description, with none
\* pending it is ignored; so there are at most as many events as in-range
\* day-lines read and every emitted day is in range.
C8_OutOfRangeDayLine ==
  /\ [][(/\ mpc = "loop"
         /\ mi <= Len(mlines)
         /\ DayLineMatch(CurLine).ok
         /\ StrToNat(DayLineMatch(CurLine).day) \notin 1..days_in_month(month_num, myear))
        => /\ mpc' = "loop"
           /\ mevents' = mevents
           /\ current_day' = current_day
           /\ current_desc' = IF current_day # None
                              THEN Append(current_desc, CurLine)
                              ELSE current_desc]_vars
  /\ [](/\ Len(mevents) <= Cardinality(InRangeDayLines(mi - 1))
        /\ \A k \in 1..Len(mevents) :
             DayOfDate(mevents[k].date) \in 1..days_in_month(month_num, myear))

\* an out-of-range day-shaped line was read while a day was pending and has
\* become the last line of that day's description
C8_Witness ==
  /\ mpc = "loop"
  /\ mi > 1
  /\ current_day # None
  /\ DayLineMatch(StripChars(mlines[mi - 1], Whitespace)).ok
  /\ ~StartsDay(StripChars(mlines[mi - 1], Whitespace), month_num, myear)
  /\ Len(current_desc) > 1
  /\ LastOf(current_desc) = StripChars(mlines[mi - 1], Whitespace)

(***************************************************************************)
(* Properties of the poster scanner                                        *)
(***************************************************************************)
\* the patterns that match somewhere in s
FamiliesIn(s) == {f \in Families : \E p \in 1..Len(s) : FamilyEnd(f, s, p) # 0}

\* C9 as stated: the match of a line is chosen by the precedence of the four
\* families wherever their matches lie (numeric D.M.Y, then Romanian, then
\* English, then ISO-like), and a line gives at most one event.
C9_FamilyPrecedence ==
  (ppc \in {"loop", "done"} /\ pidx > 1) =>
    /\ IF FamiliesIn(plines[pidx - 1]) = {} THEN match = NoMatch
       ELSE match.family = Min(FamiliesIn(plines[pidx - 1]))
    /\ Len(pevents) <= pidx - 1

\* C9 amended: the match of a line is the leftmost match of any of the four
\* families; the order of the families decides only between matches that
\* start at the same position; a line gives at most one event.
C9_Amended ==
  (ppc \in {"loop", "done"} /\ pidx > 1) =>
    /\ IF FamiliesIn(plines[pidx - 1]) = {} THEN match = NoMatch
       ELSE /\ match.start \in 1..Len(plines[pidx - 1])
            /\ match.family \in Families
            /\ FamilyEnd(match.family, plines[pidx - 1], match.start) = match.end + 1
            /\ \A p \in 1..Len(plines[pidx - 1]), f \in Families :
                 FamilyEnd(f, plines[pidx - 1], p) # 0 =>
                   \/ p > match.start
                   \/ p = match.start /\ f >= match.family
    /\ Len(pevents) <= pidx - 1

\* a line holding an ISO-like date left of a numeric date was read: the
\* ISO-like date was taken and the numeric one stayed in the title
C9_Witness ==
  /\ ppc = "loop"
  /\ pidx = 2
  /\ FamiliesIn(plines[1]) = {1, 4}
  /\ match.family = 4
  /\ Len(pevents) = 1
  /\ pevents[1].date = <<"2", "0", "2", "5", "-", "0", "3", "-", "1", "5">>
  /\ Contains(pevents[1].title, <<"0", "1", ".", "0", "2", ".", "2", "0", "2", "4">>)
(***************************************************************************)
(* Properties of the column detection                                      *)
(***************************************************************************)
\* C6 as stated: a row whose separators are not exactly 5 gets 7 boundaries
\* of 6 equal-width columns, the first at 2.5%W and the last at 97.5%W.
C6_SpansMargins ==
  (gpc = "done" /\ Len(separators) # 5) =>
    /\ Len(xs) = 7
    /\ \A i \in 1..5 : xs[i + 1] - xs[i] = xs[i + 2] - xs[i + 1]
    /\ xs[1] = (gW * 25) \div 1000
    /\ xs[7] = (gW * 975) \div 1000

\* C6 amended: such a row gets 7 boundaries of 6 equal-width columns, the
\* first at int(2.5%W); the width is the whole part of
\* (int(97.5%W) - int(2.5%W)) / 6, so the last boundary never passes
\* int(97.5%W) and stays short of it by the remainder of that division (0 to
\* 5 pixels): the columns reach 97.5%W only when the remainder is 0.
C6_Amended ==
  (gpc = "done" /\ Len(separators) # 5) =>
    /\ Len(xs) = 7
    /\ \A i \in 1..5 : xs[i + 1] - xs[i] = xs[i + 2] - xs[i + 1]
    /\ xs[1] = (gW * 25) \div 1000
    /\ xs[7] <= (gW * 975) \div 1000
    /\ (gW * 975) \div 1000 - xs[7] = ((gW * 975) \div 1000 - (gW * 25) \div 1000) % 6

\* a row without separators whose equal columns stop short of 97.5%W
C6_Witness ==
  /\ gpc = "done"
  /\ separators = << >>
  /\ Len(xs) = 7
  /\ xs[7] < (gW * 975) \div 1000

\* C10: any two separators the detection returns for a row are at least W/9
\* apart, plateaus of equal brightness included.
C10_MinSpacing ==
  gpc \in {"bounds", "done"} =>
    \A i, j \in 1..Len(separators) :
      i < j => separators[j] - separators[i] >= gW \div 9


(***************************************************************************)
(* Properties of upload_image                                              *)
(***************************************************************************)
ResultEvents == result.events

\* whether d reads YYYY-MM-DD with a month of the year and a day of the month
WellFormedDate(d) ==
  /\ Len(d) = 10
  /\ d[5] = "-" /\ d[8] = "-"
  /\ \A k \in {1, 2, 3, 4, 6, 7, 9, 10} : d[k] \in Digits
  /\ StrToNat(SubSeq(d, 6, 7)) \in 1..12
  /\ StrToNat(SubSeq(d, 9, 10)) \in
       1..days_in_month(StrToNat(SubSeq(d, 6, 7)), StrToNat(SubSeq(d, 1, 4)))

\* C1: a finished request returns the grid events under the summary only
\* when the image is landscape, numpy is present and the grid gave at least
\* 10 events; in every other case it returns the recognised text of the whole
\* image with exactly the events extracted from that text, none of them a
\* grid event.
C1_PathSelection ==
  upc = "done" =>
    IF numpy /\ image.W > image.H /\ Len(all_events) >= 10
    THEN /\ result.events = all_events
         /\ result.raw_text = Summary(image.W, image.H, all_events)
    ELSE /\ result.raw_text = utext
         /\ result.events = extract_events(utext)
         /\ \A i \in 1..Len(result.events), j \in 1..Len(all_events) :
              result.events[i] # all_events[j]

\* a landscape image whose grid gave 8 events was answered from the poster
\* path
C1_Witness ==
  /\ upc = "done"
  /\ numpy /\ image.W > image.H
  /\ Len(all_events) = 8
  /\ result.raw_text = utext
  /\ Len(result.events) = 1

\* C3: every event of every result carries a date of the form YYYY-MM-DD
\* with a 4-digit year, a month in 1..12 and a day of that month, with or
\* without a year forced by the caller.
C3_DatesWellFormed ==
  \A i \in 1..Len(ResultEvents) : WellFormedDate(ResultEvents[i].date)

\* C4: every event of every result has a title of at most 140 characters,
\* from the grid as from the poster path.
C4_TitleBounded ==
  \A i \in 1..Len(ResultEvents) : Len(ResultEvents[i].title) <= TITLE_MAX

\* C7: at every recognition call (title band, month column, whole image) a
\* failed "ron+eng" call is followed by one "eng" call at the same place, and
\* the request fails only after a failed "eng" call.
C7_RetriedInEnglish ==
  [][/\ (ocr.lang = "ron+eng" /\ ~ocr.ok) =>
          (ocr'.site = ocr.site /\ ocr'.lang = "eng")
     /\ (upc # "error" /\ upc' = "error") => (ocr'.lang = "eng" /\ ~ocr'.ok)]_vars
====
